---- MODULE Spec2Model ----
(***************************************************************************)
(* X-Tracker: the live-tracking screen BikeComputerScreen                  *)
(* (src/app/(tabs)/index.tsx) as a state machine.                          *)
(*                                                                         *)
(* React state is modelled in two layers.  The hook variables (isTracking, *)
(* isPaused, distance, ...) hold the latest value of each useState cell,   *)
(* i.e. the value with every queued set-call applied in order.  `view` is  *)
(* the snapshot of those cells that the last committed render closed over: *)
(* the press handlers, the alert button and startTracking read `view`,     *)
(* never the hook variables.  Passive effects run in a separate step after *)
(* the render that scheduled them.                                         *)
(*                                                                         *)
(* Units: time in milliseconds, speed in mm/s, distance in mm, longitude   *)
(* in hundredths of a degree on the equator.                               *)
(***************************************************************************)
EXTENDS Integers, Sequences, FiniteSets, TLC

\* ---- bounds of the model ----
MaxSteps == 8           \* the clock advances at most this many steps
MaxReadings == 2        \* counted samples per trip
MaxCalls == 2           \* invocations of startTracking
MaxLon == 1             \* longitudes 0 .. MaxLon (hundredths of a degree)
MaxPresses == 2         \* presses of the control button between two renders
MaxEvents == 3          \* user and sensor events in one run
MaxCoord == 2           \* coordinates -MaxCoord .. MaxCoord for calculateDistance
MaxOps == 2             \* settings handlers running at the same time

\* ---- program constants ----
AutoStartDelay == 1000  \* setTimeout(..., 1000) of the mount effect
TimerInterval == 1000   \* setInterval(..., 1000) of the elapsed timer
MsPerSecond == 1000     \* the divisor in Math.floor(ms / 1000)
MmPerLonStep == 1111949 \* 6371e3 m * (0.01 * PI / 180), in mm

\* granularity of the modelled clock: half a timer period
TimeStep == TimerInterval \div 2

NoDate == -1            \* a Date | null cell holding null
NullSpeed == -1         \* coords.speed === null
NoSub == 0              \* locationSubscription.current === null

\* LocationData is modelled by its coords; null is a point off the map
NoLocation == [latitude |-> 999, longitude |-> 999]
NoTimer == [startTime |-> NoDate, pausedTime |-> 0, due |-> NoDate]

Lons == 0..MaxLon
Lats == {0}
Speeds == {NullSpeed, -5000, 10000, 100000}
CallIds == 1..MaxCalls

VARIABLES
    now,                  \* Date.now()
    mounted,              \* the screen is mounted
    status,               \* foreground location permission
    autoStart,            \* the mount effect's setTimeout has not fired yet
    isTracking, isPaused, distance, startTime, pausedTime, pauseStartTime,
    elapsedTime, maxSpeed, avgSpeed, lastLocation, speedReadings, location,
    view,                 \* the cells as captured by the last committed render
    effects,              \* passive effects scheduled by the last render
    isPausedRef,          \* isPausedRef.current
    timerRef,             \* the live interval of timerRef.current, or NoTimer
    locationSubscription, \* locationSubscription.current
    calls,                \* the invocations of startTracking
    alert,                \* the reset alert: closed, or the render it was opened in
    presses,              \* presses of the control button since the last render
    lastOp,               \* history: the operation that produced this state
    events,               \* history: user and sensor events so far
    pauseLog,             \* history: the paused intervals of the current trip
    storage,              \* AsyncStorage: the items 'appSettings' and 'app_theme_mode'
    settings,             \* SettingsScreen: the settings cell
    themeMode,            \* ThemeProvider: the themeMode cell
    locale,               \* i18n.locale
    deviceLocale,         \* getLocales()[0].languageCode
    keepAwakeLock,        \* expo-keep-awake holds the screen on
    orientation,          \* expo-screen-orientation: the lock in force
    ops,                  \* the running invocations of the settings handlers
    loading,              \* the loads of the mount effects not yet resolved
    chosen                \* history: the values last changed successfully

hooks == <<isTracking, isPaused, distance, startTime, pausedTime, pauseStartTime,
           elapsedTime, maxSpeed, avgSpeed, lastLocation, speedReadings, location>>
refs == <<isPausedRef, timerRef, locationSubscription>>
env == <<now, mounted, status, autoStart>>
ui == <<alert, presses>>
tracker == <<env, hooks, view, effects, refs, calls, ui, pauseLog>>
prefs == <<storage, settings, themeMode, locale, deviceLocale, keepAwakeLock,
           orientation, ops, loading, chosen>>
vars == <<env, hooks, view, effects, refs, calls, ui, lastOp, events, pauseLog, prefs>>

\* ---- pure helpers ----
Abs(x) == IF x < 0 THEN 0 - x ELSE x
Max(a, b) == IF a > b THEN a ELSE b

RECURSIVE SumSeq(_)
SumSeq(s) == IF s = << >> THEN 0 ELSE Head(s) + SumSeq(Tail(s))

\* Math.floor(ms / 1000) for the differences the code forms
FloorSeconds(ms) == ms \div MsPerSecond

\* (mutant) the central angle taken with its sign
SignedDistance(lat1, lon1, lat2, lon2) ==
    IF lon1 = lon2 THEN MmPerLonStep * (lat2 - lat1)
    ELSE MmPerLonStep * (lon2 - lon1)

\* Haversine distance on the domain the model draws samples from.  With equal
\* longitudes a = sin^2(dPhi/2), so c = 2*atan2(sqrt a, sqrt(1-a)) = |dPhi| and
\* R*c = R*|lat2 - lat1|; with both latitudes 0, a = sin^2(dLambda/2) and
\* R*c = R*|lon2 - lon1| (angles in radians, results in mm).
calculateDistance(lat1, lon1, lat2, lon2) ==
    IF lon1 = lon2 THEN MmPerLonStep * Abs(lat2 - lat1)
    ELSE MmPerLonStep * Abs(lon2 - lon1)

\* locationUpdate.coords.speed || 0
SpeedOrZero(s) == IF s = NullSpeed THEN 0 ELSE s

\* ---- the render layer ----
Snapshot ==
    [isTracking |-> isTracking, isPaused |-> isPaused,
     pauseStartTime |-> pauseStartTime, startTime |-> startTime,
     pausedTime |-> pausedTime, lastLocation |-> lastLocation]

NoAlert == [open |-> FALSE, isTracking |-> FALSE, lastLocation |-> NoLocation]
NoCall == [pc |-> "none", lastLocation |-> NoLocation]

\* the dependency arrays of the two passive effects (lines 113 and 139)
PausedRefDeps(v) == <<v.isPaused>>
TimerDeps(v) == <<v.isTracking, v.isPaused, v.startTime, v.pausedTime>>

ScheduledEffects(old, new) ==
    (IF PausedRefDeps(old) # PausedRefDeps(new) THEN {"pausedRef"} ELSE {})
    \cup (IF TimerDeps(old) # TimerDeps(new) THEN {"timer"} ELSE {})

\* (mutant) the timer effect without its test of isPaused
TimerWantedIgnoringPause(v) == v.isTracking /\ v.startTime # NoDate

\* the guard of the elapsed-timer effect
TimerWanted(v) == v.isTracking /\ ~v.isPaused /\ v.startTime # NoDate

\* timerRef.current after the timer effect's cleanup and body have run
TimerAfterEffect(v, t) ==
    IF TimerWanted(v)
    THEN [startTime |-> v.startTime, pausedTime |-> v.pausedTime,
          due |-> t + TimerInterval]
    ELSE NoTimer

\* the value the interval callback passes to setElapsedTime
TickValue(timer, t) == FloorSeconds(t - timer.startTime) - timer.pausedTime

\* ---- the sample callback's arithmetic ----
\* if (!isPausedRef.current)
Counted(pausedRef) == ~pausedRef

\* (mutant) the increment taken without the test of lastLocation
DistanceAfterUnguarded(prev, last, cur) ==
    prev + calculateDistance(last.latitude, last.longitude,
                             cur.latitude, cur.longitude)

\* (mutant) the increment subtracted instead of added
DistanceAfterSubtracting(prev, last, cur) ==
    IF last # NoLocation
    THEN prev - calculateDistance(last.latitude, last.longitude,
                                  cur.latitude, cur.longitude)
    ELSE prev

\* if (lastLocation) setDistance(prev => prev + distanceIncrement)
DistanceAfter(prev, last, cur) ==
    IF last # NoLocation
    THEN prev + calculateDistance(last.latitude, last.longitude,
                                  cur.latitude, cur.longitude)
    ELSE prev

\* (mutant) the speed taken as reported, without the clamp
UnclampedSpeed(s) == s

\* Math.max(currentLocation.speed, 0)
ClampSpeed(s) == Max(s, 0)

\* (mutant) the running sum stored as the average, without the division
SumWithoutDivision(readings) == SumSeq(readings)

\* newReadings.reduce(...) / newReadings.length
Average(readings) == SumSeq(readings) \div Len(readings)

\* ---- resumeTracking's accumulation ----
\* if (pauseStartTime) setPausedTime(prev => prev + pauseDuration)
PausedTimeAfter(prev, pauseStart, t) ==
    IF pauseStart # NoDate THEN prev + FloorSeconds(t - pauseStart) ELSE prev

\* ---- history of the current trip (not read by any action's guard) ----
\* openedAt: when pause() moved the tracker from Active to Paused, NoDate while
\* no interval is open; closedSeconds / closedMs: the intervals closed by a
\* resume(), each once, in whole seconds per interval and in milliseconds;
\* foreign: a press handler of a render that did not show the current trip
\* has run during it; speeds: the clamped speeds of the samples delivered
\* while the tracker was tracking and not paused; raw: coords.speed of the
\* sample delivered last; coords: the coordinates of the samples delivered
NoPauses == [openedAt |-> NoDate, closedSeconds |-> 0, closedMs |-> 0,
             foreign |-> FALSE, speeds |-> << >>, raw |-> NullSpeed,
             coords |-> {}]

\* the press handlers on screen belong to a render of the current trip
HandlersOfThisTrip == isTracking /\ view.isTracking /\ view.startTime = startTime

LogPause(log, tracking, t) ==
    LET l == [log EXCEPT !.foreign = @ \/ (tracking /\ ~HandlersOfThisTrip)]
    IN  IF tracking /\ l.openedAt = NoDate THEN [l EXCEPT !.openedAt = t] ELSE l

LogResume(log, t) ==
    LET l == [log EXCEPT !.foreign = @ \/ (isTracking /\ ~HandlersOfThisTrip)]
    IN  IF l.openedAt # NoDate
        THEN [l EXCEPT !.openedAt = NoDate,
                       !.closedSeconds = @ + FloorSeconds(t - l.openedAt),
                       !.closedMs = @ + (t - l.openedAt)]
        ELSE l

LogSample(log, tracking, paused, raw, speed, cur) ==
    [log EXCEPT !.raw = raw,
                !.coords = @ \cup {cur},
                !.speeds = IF tracking /\ ~paused THEN Append(@, speed) ELSE @]

\* a step of the runtime (clock, React, timers, promises): no event is used up
Internal(op) == lastOp' = op /\ UNCHANGED <<events, pauseLog, prefs>>

\* a variant of Event that clears the settings store
EventClearingStore(op) ==
    /\ events < MaxEvents /\ events' = events + 1 /\ lastOp' = op
    /\ storage' = [appSettings |-> << >>, app_theme_mode |-> << >>]
    /\ UNCHANGED <<settings, themeMode, locale, deviceLocale, keepAwakeLock,
                   orientation, ops, loading, chosen>>

\* a step caused by the user or the position sensor
Event(op) ==
    events < MaxEvents /\ events' = events + 1 /\ lastOp' = op /\ UNCHANGED prefs

\* ---- the preferences: SettingsScreen, ThemeProvider and i18n ----
Modes == {"auto", "light", "dark"}
Locales == {"en", "zh", "ja"}
NoLanguage == "null"    \* languageCode === null
DeviceLocales == {"en", "ja", NoLanguage}
SystemSchemes == {"light", "dark", "null"}
OpIds == 1..MaxOps

\* useState<SettingsState>({isFullScreen: false, keepAwake: false, darkMode: 'auto'})
DefaultSettings == [isFullScreen |-> FALSE, keepAwake |-> FALSE, darkMode |-> "auto"]

\* an item of AsyncStorage is << >> (getItem gives null) or the stored string;
\* the JSON text of a SettingsState is modelled by the tuple of its members
NoItem == << >>
EmptyStorage == [appSettings |-> NoItem, app_theme_mode |-> NoItem]
JSONStringify(s) == <<s.isFullScreen, s.keepAwake, s.darkMode>>
JSONParse(t) == [isFullScreen |-> t[1], keepAwake |-> t[2], darkMode |-> t[3]]

\* i18n.locale = deviceLanguage ?? 'en'
LocaleAtStart(dev) == IF dev = NoLanguage THEN "en" ELSE dev

\* ThemeProvider: the colour scheme derived from themeMode
colorScheme(mode, system) ==
    IF mode = "auto" THEN (IF system = "null" THEN "light" ELSE system)
    ELSE IF mode = "dark" THEN "dark" ELSE "light"

NoOp == [pc |-> "idle", kind |-> "none", newSettings |-> DefaultSettings,
         mode |-> "auto"]
NoChoice == [isFullScreen |-> << >>, keepAwake |-> << >>, darkMode |-> << >>,
             locale |-> << >>, darkModeAtStart |-> << >>, stale |-> FALSE]

\* the process has just started: every cell holds its initial value, the two
\* mount effects have called loadSettings and loadThemeMode
PrefsAtStart(store, dev) ==
    /\ storage = store
    /\ settings = DefaultSettings
    /\ themeMode = "auto"
    /\ deviceLocale = dev
    /\ locale = LocaleAtStart(dev)
    /\ keepAwakeLock = FALSE
    /\ orientation = "default"
    /\ ops = [i \in OpIds |-> NoOp]
    /\ loading = {"settings", "theme"}
    /\ chosen = NoChoice

\* ---- initial state: the first render and its mount effects ----
InitTracker ==
    /\ now = 0
    /\ mounted = TRUE
    /\ status \in {"granted", "denied"}
    /\ autoStart = TRUE
    /\ isTracking = FALSE
    /\ isPaused = FALSE
    /\ distance = 0
    /\ startTime = NoDate
    /\ pausedTime = 0
    /\ pauseStartTime = NoDate
    /\ elapsedTime = 0
    /\ maxSpeed = 0
    /\ avgSpeed = 0
    /\ lastLocation = NoLocation
    /\ speedReadings = << >>
    /\ location = NoLocation
    /\ view = [isTracking |-> FALSE, isPaused |-> FALSE,
               pauseStartTime |-> NoDate, startTime |-> NoDate,
               pausedTime |-> 0, lastLocation |-> NoLocation]
    /\ effects = {}
    /\ isPausedRef = FALSE
    /\ timerRef = NoTimer
    /\ locationSubscription = NoSub
    /\ calls = [i \in CallIds |-> NoCall]
    /\ alert = NoAlert
    /\ presses = 0
    /\ events = 0
    /\ pauseLog = NoPauses
    /\ lastOp = "init"

\* on a fresh install the settings store is empty
Init == InitTracker /\ PrefsAtStart(EmptyStorage, "en")

\* the settings store as an earlier run of the app may have left it
StoredBefore ==
    [appSettings |-> JSONStringify([isFullScreen |-> TRUE, keepAwake |-> TRUE,
                                    darkMode |-> "dark"]),
     app_theme_mode |-> <<"light">>]
Stores == {EmptyStorage, StoredBefore}
InitStored == InitTracker /\ \E store \in Stores : PrefsAtStart(store, "en")

\* ---- helpers on the invocations of startTracking ----
FreeCalls == {i \in CallIds : calls[i].pc = "none"}
NextCall == CHOOSE i \in FreeCalls : \A j \in FreeCalls : i <= j
\* startTracking() invoked from a closure whose lastLocation is `last`
Invoke(last) == [calls EXCEPT ![NextCall] = [pc |-> "perm", lastLocation |-> last]]
LiveSubs == {i \in CallIds : calls[i].pc = "live"}

\* React work (a render or its effects) is outstanding
RenderPending == mounted /\ (view # Snapshot \/ effects # {})

\* ---- the clock ----
Advance ==
    /\ now + TimeStep <= MaxSteps * TimeStep
    /\ ~RenderPending
    /\ \A i \in CallIds : calls[i].pc \notin {"perm", "watch"}
    /\ timerRef # NoTimer => now + TimeStep <= timerRef.due
    /\ autoStart => now + TimeStep <= AutoStartDelay
    /\ now' = now + TimeStep
    /\ Internal("advance")
    /\ UNCHANGED <<mounted, status, autoStart, hooks, view, effects,
                   refs, calls, ui>>

\* the user grants the permission that requestLocationPermission asked for
GrantPermission ==
    /\ status = "denied"
    /\ status' = "granted"
    /\ Event("permission")
    /\ UNCHANGED pauseLog
    /\ UNCHANGED <<now, mounted, autoStart, hooks, view, effects, refs, calls, ui>>

\* setTimeout(() => startTracking(), 1000) of the mount effect: the closure of
\* the first render, where lastLocation is null
AutoStart ==
    /\ autoStart
    /\ now >= AutoStartDelay
    /\ FreeCalls # {}
    /\ autoStart' = FALSE
    /\ calls' = Invoke(NoLocation)
    /\ Internal("autoStart")
    /\ UNCHANGED <<now, mounted, status, hooks, view, effects, refs, ui>>

\* (mutant) startTracking without the three set-calls on the pause cells
StartCellsKeepingPause(t) ==
    /\ isTracking' = TRUE
    /\ startTime' = t
    /\ distance' = 0
    /\ elapsedTime' = 0
    /\ maxSpeed' = 0
    /\ avgSpeed' = 0
    /\ speedReadings' = << >>
    /\ lastLocation' = NoLocation
    /\ UNCHANGED <<isPaused, pausedTime, pauseStartTime>>

\* the eleven set-calls of startTracking, made at time t
StartCells(t) ==
    /\ isTracking' = TRUE
    /\ isPaused' = FALSE
    /\ pausedTime' = 0
    /\ pauseStartTime' = NoDate
    /\ startTime' = t
    /\ distance' = 0
    /\ elapsedTime' = 0
    /\ maxSpeed' = 0
    /\ avgSpeed' = 0
    /\ speedReadings' = << >>
    /\ lastLocation' = NoLocation

\* startTracking after `await getForegroundPermissionsAsync()`, permission
\* granted: the eleven set-calls, then watchPositionAsync is called
StartGranted(i) ==
    /\ calls[i].pc = "perm"
    /\ status = "granted"
    /\ StartCells(now)
    /\ calls' = [calls EXCEPT ![i].pc = "watch"]
    /\ lastOp' = "start"
    /\ UNCHANGED <<events, prefs>>
    /\ pauseLog' = NoPauses
    /\ UNCHANGED <<env, location, view, effects, refs, ui>>

\* (mutant) startTracking going on although the permission is not granted
StartIgnoringPermission(i) ==
    /\ calls[i].pc = "perm"
    /\ status # "granted"
    /\ StartCells(now)
    /\ calls' = [calls EXCEPT ![i].pc = "watch"]
    /\ Internal("startDenied")
    /\ UNCHANGED <<env, location, view, effects, refs, ui>>

\* startTracking, permission not granted: requestLocationPermission, return
StartDenied(i) ==
    /\ calls[i].pc = "perm"
    /\ status # "granted"
    /\ calls' = [calls EXCEPT ![i].pc = "done"]
    /\ Internal("startDenied")
    /\ UNCHANGED <<env, hooks, view, effects, refs, ui>>

\* watchPositionAsync resolves: locationSubscription.current = subscription
WatchResolved(i) ==
    /\ calls[i].pc = "watch"
    /\ locationSubscription' = i
    /\ calls' = [calls EXCEPT ![i].pc = "live"]
    /\ Internal("watchResolved")
    /\ UNCHANGED <<env, hooks, view, effects, isPausedRef, timerRef, ui>>

\* watchPositionAsync rejects: the catch block logs and alerts
WatchFailed(i) ==
    /\ calls[i].pc = "watch"
    /\ calls' = [calls EXCEPT ![i].pc = "done"]
    /\ Internal("watchFailed")
    /\ UNCHANGED <<env, hooks, view, effects, refs, ui>>

\* the callback passed to watchPositionAsync by invocation i, for one fix
LocationCallback(i, lat, lon, speed) ==
    LET currentLocation == [latitude |-> lat, longitude |-> lon]
        currentSpeed == ClampSpeed(SpeedOrZero(speed))
        newReadings == Append(speedReadings, currentSpeed)
    IN  /\ calls[i].pc = "live"
        /\ Counted(isPausedRef) => Len(speedReadings) < MaxReadings
        /\ location' = currentLocation
        /\ IF Counted(isPausedRef)
           THEN /\ distance' = DistanceAfter(distance, calls[i].lastLocation,
                                             currentLocation)
                /\ maxSpeed' = Max(maxSpeed, currentSpeed)
                /\ speedReadings' = newReadings
                /\ avgSpeed' = Average(newReadings)
                /\ lastLocation' = currentLocation
           ELSE UNCHANGED <<distance, maxSpeed, speedReadings, avgSpeed, lastLocation>>
        /\ Event("sample")
        /\ pauseLog' = LogSample(pauseLog, isTracking, isPaused, speed, currentSpeed,
                                currentLocation)
        /\ UNCHANGED <<env, isTracking, isPaused, startTime, pausedTime,
                       pauseStartTime, elapsedTime, view, effects, refs, calls, ui>>

\* ---- the floating control button ----
\* onPress while the rendered isPaused is false: pauseTracking
PressPause ==
    /\ mounted
    /\ ~alert.open
    /\ ~view.isPaused
    /\ presses < MaxPresses
    /\ presses' = presses + 1
    /\ isPaused' = TRUE
    /\ pauseStartTime' = now
    /\ Event("pause")
    /\ pauseLog' = LogPause(pauseLog, isTracking, now)
    /\ UNCHANGED <<env, isTracking, distance, startTime, pausedTime, elapsedTime,
                   maxSpeed, avgSpeed, lastLocation, speedReadings, location,
                   view, effects, refs, calls, alert>>

\* onPress while the rendered isPaused is true: resumeTracking, which reads
\* the pauseStartTime of the render the handler belongs to
PressResume ==
    /\ mounted
    /\ ~alert.open
    /\ view.isPaused
    /\ presses < MaxPresses
    /\ presses' = presses + 1
    /\ pausedTime' = PausedTimeAfter(pausedTime, view.pauseStartTime, now)
    /\ isPaused' = FALSE
    /\ pauseStartTime' = NoDate
    /\ Event("resume")
    /\ pauseLog' = LogResume(pauseLog, now)
    /\ UNCHANGED <<env, isTracking, distance, startTime, elapsedTime,
                   maxSpeed, avgSpeed, lastLocation, speedReadings, location,
                   view, effects, refs, calls, alert>>

\* onLongPress: Alert.alert(...) with the resetTracking of the current render
LongPress ==
    /\ mounted
    /\ ~alert.open
    /\ alert' = [open |-> TRUE, isTracking |-> view.isTracking,
                 lastLocation |-> view.lastLocation]
    /\ Event("longPress")
    /\ UNCHANGED pauseLog
    /\ UNCHANGED <<env, hooks, view, effects, refs, calls, presses>>

\* the alert's cancel button
AlertCancel ==
    /\ alert.open
    /\ alert' = NoAlert
    /\ Event("cancel")
    /\ UNCHANGED pauseLog
    /\ UNCHANGED <<env, hooks, view, effects, refs, calls, presses>>

\* the alert's reset button: resetTracking of the render the alert was opened in
AlertReset ==
    /\ alert.open
    /\ ~alert.isTracking => FreeCalls # {}
    /\ isPaused' = FALSE
    /\ pausedTime' = 0
    /\ pauseStartTime' = NoDate
    /\ location' = NoLocation
    /\ distance' = 0
    /\ startTime' = now
    /\ elapsedTime' = 0
    /\ maxSpeed' = 0
    /\ avgSpeed' = 0
    /\ speedReadings' = << >>
    /\ lastLocation' = NoLocation
    /\ calls' = IF ~alert.isTracking THEN Invoke(alert.lastLocation) ELSE calls
    /\ alert' = NoAlert
    /\ Event("reset")
    /\ pauseLog' = NoPauses
    /\ UNCHANGED <<env, isTracking, view, effects, refs, presses>>

\* ---- React: commit of a render, then its passive effects ----
Render ==
    /\ mounted
    /\ effects = {}
    /\ view # Snapshot
    /\ view' = Snapshot
    /\ effects' = ScheduledEffects(view, Snapshot)
    /\ presses' = 0
    /\ Internal("render")
    /\ UNCHANGED <<env, hooks, refs, calls, alert>>

FlushEffects ==
    /\ mounted
    /\ effects # {}
    /\ isPausedRef' = IF "pausedRef" \in effects THEN view.isPaused ELSE isPausedRef
    /\ timerRef' = IF "timer" \in effects THEN TimerAfterEffect(view, now) ELSE timerRef
    /\ effects' = {}
    /\ Internal("effects")
    /\ UNCHANGED <<env, hooks, view, locationSubscription, calls, ui>>

\* the callback of setInterval
TimerFire ==
    /\ timerRef # NoTimer
    /\ now >= timerRef.due
    /\ elapsedTime' = TickValue(timerRef, now)
    /\ timerRef' = [timerRef EXCEPT !.due = @ + TimerInterval]
    /\ Internal("tick")
    /\ UNCHANGED <<env, isTracking, isPaused, distance, startTime, pausedTime,
                   pauseStartTime, maxSpeed, avgSpeed, lastLocation, speedReadings,
                   location, view, effects, isPausedRef, locationSubscription,
                   calls, ui>>

\* ---- stopTracking, reached from the mount effect's cleanup ----
CallsAfterStop == 
    IF locationSubscription # NoSub
    THEN [calls EXCEPT ![locationSubscription].pc = "removed"]
    ELSE calls

Unmount ==
    /\ mounted
    /\ calls' = CallsAfterStop
    /\ locationSubscription' = NoSub
    /\ isTracking' = FALSE
    /\ timerRef' = NoTimer
    /\ mounted' = FALSE
    /\ effects' = {}
    /\ Event("stop")
    /\ UNCHANGED pauseLog
    /\ UNCHANGED <<now, status, autoStart, isPaused, distance, startTime,
                   pausedTime, pauseStartTime, elapsedTime, maxSpeed, avgSpeed,
                   lastLocation, speedReadings, location, view, isPausedRef, ui>>

Next ==
    \/ Advance
    \/ GrantPermission
    \/ AutoStart
    \/ \E i \in CallIds : StartGranted(i)
    \/ \E i \in CallIds : StartDenied(i)
    \/ \E i \in CallIds : WatchResolved(i)
    \/ \E i \in CallIds : WatchFailed(i)
    \/ \E i \in CallIds, lat \in Lats, lon \in Lons, speed \in Speeds :
          LocationCallback(i, lat, lon, speed)
    \/ PressPause
    \/ PressResume
    \/ LongPress
    \/ AlertCancel
    \/ AlertReset
    \/ Render
    \/ FlushEffects
    \/ TimerFire
    \/ Unmount

Spec == Init /\ [][Next]_vars

\* the same screen started over a settings store that may hold items
SpecStored == InitStored /\ [][Next]_vars

(***************************************************************************)
(* The screen with manual controls (src/unnamed/part_002): an earlier      *)
(* BikeComputerScreen with a Start/Stop button and a Reset button, no      *)
(* pause and no auto-start.  It has the same cells except the three pause  *)
(* cells and isPausedRef, which keep their initial values here.            *)
(***************************************************************************)

\* a press of the Start button: bounded by MaxCalls, it uses up no event
Press(op) == lastOp' = op /\ UNCHANGED <<events, pauseLog, prefs>>

\* the mount effect only asks for the permission
InitManual ==
    /\ now = 0
    /\ mounted = TRUE
    /\ status \in {"granted", "denied"}
    /\ autoStart = FALSE
    /\ isTracking = FALSE
    /\ isPaused = FALSE
    /\ distance = 0
    /\ startTime = NoDate
    /\ pausedTime = 0
    /\ pauseStartTime = NoDate
    /\ elapsedTime = 0
    /\ maxSpeed = 0
    /\ avgSpeed = 0
    /\ lastLocation = NoLocation
    /\ speedReadings = << >>
    /\ location = NoLocation
    /\ view = [isTracking |-> FALSE, isPaused |-> FALSE,
               pauseStartTime |-> NoDate, startTime |-> NoDate,
               pausedTime |-> 0, lastLocation |-> NoLocation]
    /\ effects = {}
    /\ isPausedRef = FALSE
    /\ timerRef = NoTimer
    /\ locationSubscription = NoSub
    /\ calls = [i \in CallIds |-> NoCall]
    /\ alert = NoAlert
    /\ presses = 0
    /\ events = 0
    /\ pauseLog = NoPauses
    /\ PrefsAtStart(EmptyStorage, "en")
    /\ lastOp = "init"

\* the dependency array and the guard of the elapsed-timer effect
ManualTimerDeps(v) == <<v.isTracking, v.startTime>>
ManualTimerWanted(v) == v.isTracking /\ v.startTime # NoDate

ManualTimerAfterEffect(v, t) ==
    IF ManualTimerWanted(v)
    THEN [startTime |-> v.startTime, pausedTime |-> 0, due |-> t + TimerInterval]
    ELSE NoTimer

\* the value the interval callback passes to setElapsedTime
ManualTickValue(timer, t) == FloorSeconds(t - timer.startTime)

\* the eight set-calls of startTracking, made at time t
ManualStartCells(t) ==
    /\ isTracking' = TRUE
    /\ startTime' = t
    /\ distance' = 0
    /\ elapsedTime' = 0
    /\ maxSpeed' = 0
    /\ avgSpeed' = 0
    /\ speedReadings' = << >>
    /\ lastLocation' = NoLocation

\* the Start button: startTracking of the current render
PressStart ==
    /\ mounted
    /\ ~view.isTracking
    /\ FreeCalls # {}
    /\ calls' = Invoke(view.lastLocation)
    /\ Press("pressStart")
    /\ UNCHANGED <<env, hooks, view, effects, refs, ui>>

\* startTracking after the permission check, permission granted
ManualStartGranted(i) ==
    /\ calls[i].pc = "perm"
    /\ status = "granted"
    /\ ManualStartCells(now)
    /\ calls' = [calls EXCEPT ![i].pc = "watch"]
    /\ lastOp' = "start"
    /\ UNCHANGED <<events, pauseLog, prefs>>
    /\ UNCHANGED <<env, isPaused, pausedTime, pauseStartTime, location,
                   view, effects, refs, ui>>

\* the callback passed to watchPositionAsync by invocation i, for one fix
ManualLocationCallback(i, lat, lon, speed) ==
    LET currentLocation == [latitude |-> lat, longitude |-> lon]
        currentSpeed == ClampSpeed(SpeedOrZero(speed))
        newReadings == Append(speedReadings, currentSpeed)
    IN  /\ calls[i].pc = "live"
        /\ Len(speedReadings) < MaxReadings
        /\ location' = currentLocation
        /\ distance' = DistanceAfter(distance, calls[i].lastLocation, currentLocation)
        /\ maxSpeed' = Max(maxSpeed, currentSpeed)
        /\ speedReadings' = newReadings
        /\ avgSpeed' = Average(newReadings)
        /\ lastLocation' = currentLocation
        /\ Event("sample")
        /\ UNCHANGED pauseLog
        /\ UNCHANGED <<env, isTracking, isPaused, startTime, pausedTime,
                       pauseStartTime, elapsedTime, view, effects, refs, calls, ui>>

\* the Stop button: stopTracking
PressStop ==
    /\ mounted
    /\ view.isTracking
    /\ calls' = CallsAfterStop
    /\ locationSubscription' = NoSub
    /\ isTracking' = FALSE
    /\ timerRef' = NoTimer
    /\ Event("stop")
    /\ UNCHANGED pauseLog
    /\ UNCHANGED <<env, isPaused, distance, startTime, pausedTime, pauseStartTime,
                   elapsedTime, maxSpeed, avgSpeed, lastLocation, speedReadings,
                   location, view, effects, isPausedRef, ui>>

\* the Reset button: resetTracking = stopTracking, then the cells are cleared
PressReset ==
    /\ mounted
    /\ calls' = CallsAfterStop
    /\ locationSubscription' = NoSub
    /\ isTracking' = FALSE
    /\ timerRef' = NoTimer
    /\ location' = NoLocation
    /\ distance' = 0
    /\ startTime' = NoDate
    /\ elapsedTime' = 0
    /\ maxSpeed' = 0
    /\ avgSpeed' = 0
    /\ speedReadings' = << >>
    /\ lastLocation' = NoLocation
    /\ Event("reset")
    /\ UNCHANGED pauseLog
    /\ UNCHANGED <<env, isPaused, pausedTime, pauseStartTime, view, effects,
                   isPausedRef, ui>>

ManualRender ==
    /\ mounted
    /\ effects = {}
    /\ view # Snapshot
    /\ view' = Snapshot
    /\ effects' = IF ManualTimerDeps(view) # ManualTimerDeps(Snapshot)
                  THEN {"timer"} ELSE {}
    /\ Internal("render")
    /\ UNCHANGED <<env, hooks, refs, calls, ui>>

ManualFlushEffects ==
    /\ mounted
    /\ effects # {}
    /\ timerRef' = ManualTimerAfterEffect(view, now)
    /\ effects' = {}
    /\ Internal("effects")
    /\ UNCHANGED <<env, hooks, view, isPausedRef, locationSubscription, calls, ui>>

\* the callback of setInterval
ManualTimerFire ==
    /\ timerRef # NoTimer
    /\ now >= timerRef.due
    /\ elapsedTime' = ManualTickValue(timerRef, now)
    /\ timerRef' = [timerRef EXCEPT !.due = @ + TimerInterval]
    /\ Internal("tick")
    /\ UNCHANGED <<env, isTracking, isPaused, distance, startTime, pausedTime,
                   pauseStartTime, maxSpeed, avgSpeed, lastLocation, speedReadings,
                   location, view, effects, isPausedRef, locationSubscription,
                   calls, ui>>

NextManual ==
    \/ Advance
    \/ GrantPermission
    \/ PressStart
    \/ \E i \in CallIds : ManualStartGranted(i)
    \/ \E i \in CallIds : StartDenied(i)
    \/ \E i \in CallIds : WatchResolved(i)
    \/ \E i \in CallIds : WatchFailed(i)
    \/ \E i \in CallIds, lat \in Lats, lon \in Lons, speed \in Speeds :
          ManualLocationCallback(i, lat, lon, speed)
    \/ PressStop
    \/ PressReset
    \/ ManualRender
    \/ ManualFlushEffects
    \/ ManualTimerFire
    \/ Unmount

SpecManual == InitManual /\ [][NextManual]_vars

(***************************************************************************)
(* calculateDistance on its own: pairs of points drawn from the domain on  *)
(* which the model computes it (a common meridian, or both on the equator) *)
(***************************************************************************)
Coords == (0 - MaxCoord)..MaxCoord
Points == [latitude : Coords, longitude : Coords]
OnDomain(a, b) ==
    a.longitude = b.longitude \/ (a.latitude = 0 /\ b.latitude = 0)

InitDistance ==
    /\ lastLocation \in Points
    /\ location \in Points
    /\ OnDomain(lastLocation, location)
    /\ now = 0
    /\ mounted = TRUE
    /\ status = "granted"
    /\ autoStart = FALSE
    /\ isTracking = FALSE
    /\ isPaused = FALSE
    /\ distance = 0
    /\ startTime = NoDate
    /\ pausedTime = 0
    /\ pauseStartTime = NoDate
    /\ elapsedTime = 0
    /\ maxSpeed = 0
    /\ avgSpeed = 0
    /\ speedReadings = << >>
    /\ view = [isTracking |-> FALSE, isPaused |-> FALSE,
               pauseStartTime |-> NoDate, startTime |-> NoDate,
               pausedTime |-> 0, lastLocation |-> NoLocation]
    /\ effects = {}
    /\ isPausedRef = FALSE
    /\ timerRef = NoTimer
    /\ locationSubscription = NoSub
    /\ calls = [i \in CallIds |-> NoCall]
    /\ alert = NoAlert
    /\ presses = 0
    /\ events = 0
    /\ pauseLog = NoPauses
    /\ PrefsAtStart(EmptyStorage, "en")
    /\ lastOp = "init"

\* one call calculateDistance(lastLocation, location), its result kept in distance
Measure ==
    /\ lastOp = "init"
    /\ distance' = calculateDistance(lastLocation.latitude, lastLocation.longitude,
                                     location.latitude, location.longitude)
    /\ Internal("measure")
    /\ UNCHANGED <<env, isTracking, isPaused, startTime, pausedTime, pauseStartTime,
                   elapsedTime, maxSpeed, avgSpeed, lastLocation, speedReadings,
                   location, view, effects, refs, calls, ui>>

NextDistance == Measure

SpecDistance == InitDistance /\ [][NextDistance]_vars

(***************************************************************************)
(* The preferences: the settings screen (src/unnamed/part_001), the theme  *)
(* provider (src/unnamed/part_003) and the language hook                   *)
(* (src/hooks/useI18n.ts).  A handler that awaits is split at its awaits:  *)
(* ops[i] is one invocation, holding the settings object built from the    *)
(* `settings` of the render it was called in.  A render follows every      *)
(* set-call before the next press, so that render's `settings` is the cell.*)
(* The tracking screen is at rest throughout.                              *)
(***************************************************************************)

\* a step caused by the user or the operating system
UserEvent(op) ==
    events < MaxEvents /\ events' = events + 1 /\ lastOp' = op /\ UNCHANGED tracker

\* a promise of a native module settles
Completion(op) == lastOp' = op /\ UNCHANGED <<events, tracker>>

InitSettings ==
    /\ now = 0
    /\ mounted = TRUE
    /\ status = "granted"
    /\ autoStart = FALSE
    /\ isTracking = FALSE
    /\ isPaused = FALSE
    /\ distance = 0
    /\ startTime = NoDate
    /\ pausedTime = 0
    /\ pauseStartTime = NoDate
    /\ elapsedTime = 0
    /\ maxSpeed = 0
    /\ avgSpeed = 0
    /\ lastLocation = NoLocation
    /\ speedReadings = << >>
    /\ location = NoLocation
    /\ view = [isTracking |-> FALSE, isPaused |-> FALSE,
               pauseStartTime |-> NoDate, startTime |-> NoDate,
               pausedTime |-> 0, lastLocation |-> NoLocation]
    /\ effects = {}
    /\ isPausedRef = FALSE
    /\ timerRef = NoTimer
    /\ locationSubscription = NoSub
    /\ calls = [i \in CallIds |-> NoCall]
    /\ alert = NoAlert
    /\ presses = 0
    /\ events = 0
    /\ pauseLog = NoPauses
    /\ \E dev \in DeviceLocales : PrefsAtStart(EmptyStorage, dev)
    /\ lastOp = "init"

FreeOps == {i \in OpIds : ops[i].pc = "idle"}
NextOp == CHOOSE i \in FreeOps : \A j \in FreeOps : i <= j

\* a handler of the settings screen is still running, or the settings cell
\* is not what the store holds
SettingsBusy ==
    \/ \E i \in OpIds : ops[i].pc # "idle" /\ ops[i].kind # "theme"
    \/ storage.appSettings # NoItem /\ JSONParse(storage.appSettings) # settings

\* a handler is called and runs up to its first await
BeginOp(kind, newSettings, mode, pc) ==
    /\ FreeOps # {}
    /\ ops' = [ops EXCEPT ![NextOp] = [pc |-> pc, kind |-> kind,
                                       newSettings |-> newSettings, mode |-> mode]]
    /\ chosen' = [chosen EXCEPT !.stale = @ \/ (kind # "theme" /\ SettingsBusy)]

\* toggleFullScreen up to `await ScreenOrientation.unlockAsync()/lockAsync(...)`
toggleFullScreen ==
    /\ UserEvent("toggleFullScreen")
    /\ BeginOp("fullscreen",
               [settings EXCEPT !.isFullScreen = ~settings.isFullScreen],
               settings.darkMode, "device")
    /\ UNCHANGED <<storage, settings, themeMode, locale, deviceLocale,
                   keepAwakeLock, orientation, loading>>

\* the orientation call resolves: newSettings is built and saveSettings called
OrientationSettled(i) ==
    /\ ops[i].pc = "device"
    /\ ops[i].kind = "fullscreen"
    /\ orientation' = IF ops[i].newSettings.isFullScreen THEN "unlocked"
                      ELSE "portrait"
    /\ ops' = [ops EXCEPT ![i].pc = "save"]
    /\ Completion("orientation")
    /\ UNCHANGED <<storage, settings, themeMode, locale, deviceLocale,
                   keepAwakeLock, loading, chosen>>

\* the orientation call rejects: the catch block alerts, nothing is saved
OrientationRejected(i) ==
    /\ ops[i].pc = "device"
    /\ ops[i].kind = "fullscreen"
    /\ ops' = [ops EXCEPT ![i] = NoOp]
    /\ Completion("orientationFailed")
    /\ UNCHANGED <<storage, settings, themeMode, locale, deviceLocale,
                   keepAwakeLock, orientation, loading, chosen>>

\* toggleKeepAwake: up to `await activateKeepAwakeAsync()`, or through the
\* synchronous deactivateKeepAwake() up to the await in saveSettings
toggleKeepAwake ==
    /\ UserEvent("toggleKeepAwake")
    /\ IF ~settings.keepAwake
       THEN /\ BeginOp("keepawake", [settings EXCEPT !.keepAwake = TRUE],
                       settings.darkMode, "device")
            /\ UNCHANGED keepAwakeLock
       ELSE /\ BeginOp("keepawake", [settings EXCEPT !.keepAwake = FALSE],
                       settings.darkMode, "save")
            /\ keepAwakeLock' = FALSE
    /\ UNCHANGED <<storage, settings, themeMode, locale, deviceLocale,
                   orientation, loading>>

\* activateKeepAwakeAsync resolves
KeepAwakeActivated(i) ==
    /\ ops[i].pc = "device"
    /\ ops[i].kind = "keepawake"
    /\ keepAwakeLock' = TRUE
    /\ ops' = [ops EXCEPT ![i].pc = "save"]
    /\ Completion("keepAwake")
    /\ UNCHANGED <<storage, settings, themeMode, locale, deviceLocale,
                   orientation, loading, chosen>>

\* activateKeepAwakeAsync rejects
KeepAwakeRejected(i) ==
    /\ ops[i].pc = "device"
    /\ ops[i].kind = "keepawake"
    /\ ops' = [ops EXCEPT ![i] = NoOp]
    /\ Completion("keepAwakeFailed")
    /\ UNCHANGED <<storage, settings, themeMode, locale, deviceLocale,
                   keepAwakeLock, orientation, loading, chosen>>

\* changeDarkMode(mode) up to the await in saveSettings
changeDarkMode(mode) ==
    /\ UserEvent("changeDarkMode")
    /\ BeginOp("darkmode", [settings EXCEPT !.darkMode = mode], mode, "save")
    /\ UNCHANGED <<storage, settings, themeMode, locale, deviceLocale,
                   keepAwakeLock, orientation, loading>>

\* what the user has changed once the handler of this kind has succeeded
ChosenAfter(c, op) ==
    IF op.kind = "fullscreen"
    THEN [c EXCEPT !.isFullScreen = <<op.newSettings.isFullScreen>>]
    ELSE IF op.kind = "keepawake"
    THEN [c EXCEPT !.keepAwake = <<op.newSettings.keepAwake>>]
    ELSE [c EXCEPT !.darkMode = <<op.mode>>]

\* saveSettings: AsyncStorage.setItem('appSettings', ...) resolves, then
\* setSettings(newSettings); the handler returns (changeDarkMode alerts)
saveSettings(i) ==
    /\ ops[i].pc = "save"
    /\ ops[i].kind # "theme"
    /\ storage' = [storage EXCEPT !.appSettings = JSONStringify(ops[i].newSettings)]
    /\ settings' = ops[i].newSettings
    /\ chosen' = ChosenAfter(chosen, ops[i])
    /\ ops' = [ops EXCEPT ![i] = NoOp]
    /\ Completion("saved")
    /\ UNCHANGED <<themeMode, locale, deviceLocale, keepAwakeLock, orientation,
                   loading>>

\* saveSettings: setItem rejects, the catch block alerts and swallows the error
SaveRejected(i) ==
    /\ ops[i].pc = "save"
    /\ ops[i].kind # "theme"
    /\ ops' = [ops EXCEPT ![i] = NoOp]
    /\ Completion("saveFailed")
    /\ UNCHANGED <<storage, settings, themeMode, locale, deviceLocale,
                   keepAwakeLock, orientation, loading, chosen>>

\* loadSettings: getItem('appSettings') resolves
loadSettings ==
    /\ "settings" \in loading
    /\ loading' = loading \ {"settings"}
    /\ IF storage.appSettings # NoItem
       THEN /\ settings' = JSONParse(storage.appSettings)
            /\ \E ok \in BOOLEAN :
                   keepAwakeLock' = (keepAwakeLock
                                     \/ (JSONParse(storage.appSettings).keepAwake /\ ok))
       ELSE UNCHANGED <<settings, keepAwakeLock>>
    /\ Completion("loadSettings")
    /\ UNCHANGED <<storage, themeMode, locale, deviceLocale, orientation, ops,
                   chosen>>

\* loadThemeMode: getItem(THEME_STORAGE_KEY) resolves
loadThemeMode ==
    /\ "theme" \in loading
    /\ loading' = loading \ {"theme"}
    /\ themeMode' = IF storage.app_theme_mode # NoItem
                       /\ storage.app_theme_mode[1] \in Modes
                    THEN storage.app_theme_mode[1]
                    ELSE themeMode
    /\ Completion("loadThemeMode")
    /\ UNCHANGED <<storage, settings, locale, deviceLocale, keepAwakeLock,
                   orientation, ops, chosen>>

\* getItem rejects in loadSettings or loadThemeMode: the error is logged
LoadRejected(which) ==
    /\ which \in loading
    /\ loading' = loading \ {which}
    /\ Completion("loadFailed")
    /\ UNCHANGED <<storage, settings, themeMode, locale, deviceLocale,
                   keepAwakeLock, orientation, ops, chosen>>

\* ThemeProvider.setThemeMode(mode) up to `await AsyncStorage.setItem(...)`
setThemeMode(mode) ==
    /\ UserEvent("setThemeMode")
    /\ BeginOp("theme", DefaultSettings, mode, "save")
    /\ UNCHANGED <<storage, settings, themeMode, locale, deviceLocale,
                   keepAwakeLock, orientation, loading>>

\* setThemeMode: setItem resolves, then setThemeModeState(mode)
ThemeSaved(i) ==
    /\ ops[i].pc = "save"
    /\ ops[i].kind = "theme"
    /\ storage' = [storage EXCEPT !.app_theme_mode = <<ops[i].mode>>]
    /\ themeMode' = ops[i].mode
    /\ ops' = [ops EXCEPT ![i] = NoOp]
    /\ Completion("themeSaved")
    /\ UNCHANGED <<settings, locale, deviceLocale, keepAwakeLock, orientation,
                   loading, chosen>>

\* setThemeMode: setItem rejects, the error is logged and thrown again
ThemeSaveRejected(i) ==
    /\ ops[i].pc = "save"
    /\ ops[i].kind = "theme"
    /\ ops' = [ops EXCEPT ![i] = NoOp]
    /\ Completion("themeSaveFailed")
    /\ UNCHANGED <<storage, settings, themeMode, locale, deviceLocale,
                   keepAwakeLock, orientation, loading, chosen>>

\* LanguageSelector.handleLanguageChange -> useI18n.setCurrentLocale
setCurrentLocale(newLocale) ==
    /\ UserEvent("setCurrentLocale")
    /\ locale' = newLocale
    /\ chosen' = [chosen EXCEPT !.locale = <<newLocale>>]
    /\ UNCHANGED <<storage, settings, themeMode, deviceLocale, keepAwakeLock,
                   orientation, ops, loading>>

\* useI18n.handleAppStateChange('active'): the app comes back to the
\* foreground, the device language being dev by then
handleAppStateChange(dev) ==
    /\ UserEvent("appActive")
    /\ deviceLocale' = dev
    /\ locale' = IF dev # NoLanguage /\ dev # locale THEN dev ELSE locale
    /\ UNCHANGED <<storage, settings, themeMode, keepAwakeLock, orientation,
                   ops, loading, chosen>>

\* the process ends and the app is started again: only AsyncStorage survives
Restart ==
    /\ UserEvent("restart")
    /\ settings' = DefaultSettings
    /\ themeMode' = "auto"
    /\ locale' = LocaleAtStart(deviceLocale)
    /\ keepAwakeLock' = FALSE
    /\ orientation' = "default"
    /\ ops' = [i \in OpIds |-> NoOp]
    /\ loading' = {"settings", "theme"}
    /\ chosen' = [chosen EXCEPT !.darkModeAtStart = chosen.darkMode]
    /\ UNCHANGED <<storage, deviceLocale>>

NextSettings ==
    \/ toggleFullScreen
    \/ \E i \in OpIds : OrientationSettled(i)
    \/ \E i \in OpIds : OrientationRejected(i)
    \/ toggleKeepAwake
    \/ \E i \in OpIds : KeepAwakeActivated(i)
    \/ \E i \in OpIds : KeepAwakeRejected(i)
    \/ \E mode \in Modes : changeDarkMode(mode)
    \/ \E i \in OpIds : saveSettings(i)
    \/ \E i \in OpIds : SaveRejected(i)
    \/ loadSettings
    \/ loadThemeMode
    \/ \E which \in {"settings", "theme"} : LoadRejected(which)
    \/ \E mode \in Modes : setThemeMode(mode)
    \/ \E i \in OpIds : ThemeSaved(i)
    \/ \E i \in OpIds : ThemeSaveRejected(i)
    \/ \E newLocale \in Locales : setCurrentLocale(newLocale)
    \/ \E dev \in DeviceLocales : handleAppStateChange(dev)
    \/ Restart

SpecSettings == InitSettings /\ [][NextSettings]_vars

(***************************************************************************)
(* The claims                                                              *)
(***************************************************************************)

\* C1: a sample delivered after pause() was called and before the matching
\* resume() leaves distance, maxSpeed, avgSpeed and the counted readings
\* unchanged, whatever the interleaving of the callback with the pause handler
\* and with the effect that copies isPaused into isPausedRef.
C1_PausedSampleNotCounted ==
    [][(isPaused /\ lastOp' = "sample")
         => UNCHANGED <<distance, maxSpeed, avgSpeed, speedReadings>>]_vars

\* C2: a sample delivered while Active and not paused, when an earlier sample of
\* the trip is recorded as lastLocation, adds the great-circle distance between
\* lastLocation and the new sample to distance.
C2_DistanceAccumulates ==
    [][(lastOp' = "sample" /\ isTracking /\ ~isPaused /\ lastLocation # NoLocation)
         => distance' = distance + calculateDistance(
                lastLocation.latitude, lastLocation.longitude,
                location'.latitude, location'.longitude)]_vars

\* C3: the first sample counted after a start() or reset() (the readings list
\* is still empty) adds nothing to distance, also when the start() follows a
\* trip that was stopped without reset.  Only runs in which the one live
\* subscription is the one the screen holds are constrained.
C3_FirstSampleAddsZero ==
    [][(lastOp' = "sample" /\ speedReadings = << >> /\ isTracking
          /\ LiveSubs = {locationSubscription})
         => distance' = distance]_vars

\* C4: a sample delivered while Paused is recorded as lastLocation.
C4_PausedSampleRecorded ==
    [][(isPaused /\ lastOp' = "sample") => lastLocation' = location']_vars

\* C5: pause() while the tracker is already Paused or is Idle changes nothing.
C5_PauseNoOp ==
    [][(lastOp' = "pause" /\ (isPaused \/ ~isTracking))
         => UNCHANGED <<isPaused, pauseStartTime, pausedTime, elapsedTime>>]_vars

\* C6: resume() while the tracker is not Paused changes nothing (here: during
\* a trip, by the handler of a render of that trip).
C6_ResumeNoOp ==
    [][(lastOp' = "resume" /\ ~isPaused /\ HandlersOfThisTrip)
         => UNCHANGED <<pausedTime, isPaused, pauseStartTime, elapsedTime>>]_vars

\* C7: after any pause() and resume() invocations within one trip (made by the
\* handlers of renders of that trip) the paused-time accumulator equals the sum
\* of the durations (whole seconds per interval) of the paused intervals closed
\* by a resume(), each counted once; an open interval contributes nothing.
C7_PausedTimeIsSumOfClosedIntervals ==
    (isTracking /\ ~pauseLog.foreign) => pausedTime = pauseLog.closedSeconds

\* C8: at every timer tick while Active (of the interval the last render set
\* up), elapsedTime is within one second of the time since the last
\* start/reset minus the paused intervals.
ActiveMs == (now - startTime) - pauseLog.closedMs

C8_ElapsedIsActiveTime ==
    (lastOp = "tick" /\ isTracking /\ ~isPaused /\ ~RenderPending
       /\ pauseLog.openedAt = NoDate /\ ~pauseLog.foreign)
        => Abs(elapsedTime * MsPerSecond - ActiveMs) <= MsPerSecond

\* C9: once pause() or stop() has taken effect (the render and its effects
\* are done), elapsedTime does not change while the tracker is Paused or Idle;
\* only start() and reset() set it again.
C9_ElapsedFrozen ==
    [][((isPaused \/ ~isTracking) /\ ~RenderPending
          /\ lastOp' \notin {"start", "reset"})
         => elapsedTime' = elapsedTime]_vars

\* a trip with elapsed time on the clock has been paused for a full timer period
C9_Witness ==
    /\ isTracking /\ isPaused /\ ~RenderPending
    /\ elapsedTime > 0
    /\ now - pauseStartTime >= TimerInterval

\* C10: start() puts the tracker in Active with every trip cell zeroed: no
\* distance, elapsed time, speeds, paused time, readings, pause start or
\* lastLocation.
C10_StartZeroes ==
    lastOp = "start"
        => /\ isTracking /\ ~isPaused
           /\ distance = 0 /\ elapsedTime = 0 /\ maxSpeed = 0 /\ avgSpeed = 0
           /\ pausedTime = 0 /\ speedReadings = << >>
           /\ pauseStartTime = NoDate /\ lastLocation = NoLocation

\* start() ran from Idle on a screen whose pause cells were set
C10_Witness ==
    lastOp = "start" /\ ~view.isTracking /\ view.isPaused /\ view.pauseStartTime # NoDate

\* C11: reset() leaves the tracker Active with a zeroed trip.  (a) Right after
\* the handler every trip cell is zero or null and the tracker is not paused;
\* (b) once no startTracking call is awaiting its permission check, a screen on
\* which a start or reset has run (startTime is set) is tracking; (c) a tick
\* never shows more elapsed time than has passed since the last start/reset,
\* i.e. nothing of the trip before the reset reaches the new trip.
StartPending == \E i \in CallIds : calls[i].pc = "perm"

C11_ResetZeroed ==
    (mounted /\ lastOp = "reset")
        => /\ ~isPaused /\ pausedTime = 0 /\ pauseStartTime = NoDate
           /\ distance = 0 /\ elapsedTime = 0 /\ maxSpeed = 0 /\ avgSpeed = 0
           /\ speedReadings = << >> /\ lastLocation = NoLocation

C11_ResetActive ==
    (mounted /\ startTime # NoDate /\ ~StartPending) => isTracking

C11_NothingOfOldTrip ==
    (mounted /\ isTracking /\ lastOp = "tick")
        => elapsedTime <= FloorSeconds(now - startTime)

C11_ResetRestartsZeroed ==
    C11_ResetZeroed /\ C11_ResetActive /\ C11_NothingOfOldTrip

\* C12: after stop() the tracker is Idle and distance, elapsedTime, maxSpeed
\* and avgSpeed do not change until the next start() (or reset()): no sample
\* callback that runs while Idle accumulates anything.
C12_StoppedIsFrozen ==
    [][(mounted /\ ~isTracking /\ lastOp' \notin {"start", "reset"})
         => UNCHANGED <<distance, elapsedTime, maxSpeed, avgSpeed>>]_vars

\* C13: avgSpeed is the arithmetic mean of the clamped speeds of exactly the
\* samples delivered while Active and not paused since the last start/reset,
\* and 0 when there is none.
MeanOf(speeds) == IF speeds = << >> THEN 0 ELSE SumSeq(speeds) \div Len(speeds)

C13_AvgIsMeanOfActiveSamples ==
    (mounted /\ isTracking) => avgSpeed = MeanOf(pauseLog.speeds)

\* the part of C13 that does not depend on which samples are counted
C13_AvgIsMeanOfReadings == avgSpeed = MeanOf(speedReadings)

\* C14: maxSpeed is the maximum of the speed readings (0 for the empty list),
\* avgSpeed is the mean of the same list, and avgSpeed <= maxSpeed.
RECURSIVE MaxSeq(_)
MaxSeq(s) == IF s = << >> THEN 0 ELSE Max(Head(s), MaxSeq(Tail(s)))

Contribution(raw) == IF raw = NullSpeed \/ raw < 0 THEN 0 ELSE raw

C15_NegativeOrMissingSpeedIsZero ==
    [][/\ (lastOp' = "sample" /\ speedReadings' # speedReadings)
            => /\ speedReadings' = Append(speedReadings, Contribution(pauseLog'.raw))
               /\ maxSpeed' = Max(maxSpeed, Contribution(pauseLog'.raw))
       /\ maxSpeed' >= 0 /\ avgSpeed' >= 0
       /\ \A i \in 1..Len(speedReadings') : speedReadings'[i] >= 0]_vars

\* a negative speed was counted after a positive one
C15_Witness ==
    /\ lastOp = "sample" /\ pauseLog.raw < 0 /\ pauseLog.raw # NullSpeed
    /\ Len(speedReadings) = 2 /\ speedReadings[2] = 0 /\ maxSpeed > 0

\* C16: within one trip distance never decreases, whatever the order of the
\* samples in space, and it is never negative: only start() and reset() lower
\* it (to 0).
C16_DistanceMonotone ==
    [][/\ lastOp' \notin {"start", "reset"} => distance' >= distance
       /\ distance' >= 0]_vars

\* a sample west of the location its increment is measured from has been counted
C16_Witness ==
    /\ lastOp = "sample" /\ isTracking /\ distance > 0
    /\ \E i \in LiveSubs : /\ calls[i].lastLocation # NoLocation
                           /\ location.longitude < calls[i].lastLocation.longitude

\* C17: while all samples delivered since the last start/reset have the same
\* coordinates, distance is 0, whatever pause() and resume() calls come between.
C17_SameCoordinatesNoDistance ==
    (isTracking /\ Cardinality(pauseLog.coords) <= 1) => distance = 0

\* a second sample at the coordinates of the first arrives during a pause
C17_Witness ==
    /\ lastOp = "sample" /\ isTracking /\ isPaused /\ pauseLog.openedAt # NoDate
    /\ isPausedRef /\ Len(speedReadings) >= 1 /\ Cardinality(pauseLog.coords) = 1
    /\ location = lastLocation

C19_SettingsPersisted ==
    (lastOp = "loadSettings" /\ ~chosen.stale) =>
        /\ chosen.isFullScreen # << >> => settings.isFullScreen = chosen.isFullScreen[1]
        /\ chosen.keepAwake # << >> => settings.keepAwake = chosen.keepAwake[1]
        /\ chosen.darkMode # << >> => settings.darkMode = chosen.darkMode[1]

\* C19 (language part): after the next start the language is the one chosen
C19_LanguagePersisted ==
    (lastOp = "restart" /\ chosen.locale # << >>) => locale = chosen.locale[1]

\* C19: every preference (full-screen, keep-awake, theme, language) that the
\* user changed successfully is returned when the preferences are loaded
\* afterwards, e.g. on the next start of the app
C19_PreferencesPersisted == C19_SettingsPersisted /\ C19_LanguagePersisted

\* C20: the theme mode that ThemeProvider loads at start-up, and the colour
\* scheme derived from it, is the mode last chosen with changeDarkMode
C20_ThemeProviderUsesDarkMode ==
    (lastOp = "loadThemeMode" /\ chosen.darkModeAtStart # << >>) =>
        /\ themeMode = chosen.darkModeAtStart[1]
        /\ \A system \in SystemSchemes :
               colorScheme(themeMode, system)
                   = colorScheme(chosen.darkModeAtStart[1], system)


\* C21: no tracking operation (start, pause, resume, stop, reset, the sample
\* callback, the timer tick) writes the settings store: every step of the
\* tracking screen leaves the stored items as they were
C21_TrackerLeavesStore == [][storage' = storage]_vars

\* a trip with a counted sample, a pause and a tick over a store that holds items
C21_Witness ==
    /\ storage = StoredBefore
    /\ lastOp = "tick"
    /\ speedReadings # << >>
    /\ pauseLog.openedAt # NoDate \/ pauseLog.closedMs > 0


\* C22: at every moment at most one location subscription is live, whatever
\* the interleaving of the auto-start timer, startTracking and its awaits,
\* resetTracking and stopTracking
C22_AtMostOneSubscription == Cardinality(LiveSubs) <= 1


\* nothing the screen has started is still on its way: the auto-start
\* timeout has fired and no startTracking is at one of its awaits
Settled == ~autoStart /\ \A i \in CallIds : calls[i].pc \notin {"perm", "watch"}

\* C23: once the cleanup has run stopTracking and everything started before
\* it has settled, no location subscription and no elapsed-time interval is
\* live, whether the cleanup ran before the auto-start timeout fired or
\* while startTracking was awaiting watchPositionAsync
C23_CleanupLeavesNothingLive ==
    (~mounted /\ Settled) => LiveSubs = {} /\ timerRef = NoTimer


\* C24: between consecutive start/reset calls elapsedTime never decreases
\* and is never negative, whatever the ticks, pauses and resumes made during
\* the trip by the handlers of its own renders (a handler may run more than
\* once before the next render), from a value that is the trip's own
C24_ElapsedMonotone ==
    [][(mounted /\ isTracking /\ ~pauseLog'.foreign
        /\ elapsedTime <= FloorSeconds(now - startTime)
        /\ lastOp' \notin {"start", "reset"})
           => elapsedTime' >= elapsedTime /\ elapsedTime' >= 0]_vars


\* C25: whenever every startTracking has returned and isTracking is true, a
\* live location subscription exists, also after watchPositionAsync failed
C25_TrackingHasSubscription ==
    (mounted /\ isTracking /\ \A i \in CallIds : calls[i].pc \notin {"perm", "watch"})
        => locationSubscription \in LiveSubs


\* C26: when the permission check of startTracking finds the permission not
\* granted, that invocation returns normally, no subscription is created or
\* stored, and isTracking, startTime, distance, elapsedTime, maxSpeed,
\* avgSpeed and the readings stay as they are
C26_DeniedStartChangesNothing ==
    [][\A i \in CallIds :
          (calls[i].pc = "perm" /\ status # "granted" /\ calls'[i] # calls[i])
              => /\ calls'[i].pc = "done"
                 /\ LiveSubs' = LiveSubs
                 /\ UNCHANGED <<isTracking, startTime, distance, elapsedTime,
                                maxSpeed, avgSpeed, speedReadings,
                                locationSubscription>>]_vars

\* a denied startTracking that came from a reset, whose cells it leaves alone
C26_Witness ==
    /\ lastOp = "startDenied"
    /\ status = "denied"
    /\ startTime # NoDate
    /\ ~isTracking
    /\ LiveSubs = {}


\* no handler of the settings screen is between its call and its return
NoSettingsOp == \A i \in OpIds : ops[i].pc = "idle" \/ ops[i].kind = "theme"

\* the settings object s has every value the user changed successfully
Reflects(s) ==
    /\ chosen.isFullScreen # << >> => s.isFullScreen = chosen.isFullScreen[1]
    /\ chosen.keepAwake # << >> => s.keepAwake = chosen.keepAwake[1]
    /\ chosen.darkMode # << >> => s.darkMode = chosen.darkMode[1]

\* C27: once toggleFullScreen, toggleKeepAwake and changeDarkMode calls have
\* all completed successfully, the persisted and the in-memory settings
\* reflect every one of them, also when the calls overlapped in time
C27_EverySaveKept ==
    (lastOp = "saved" /\ NoSettingsOp)
        => Reflects(settings) /\ Reflects(JSONParse(storage.appSettings))


\* C28: whenever no settings operation is in progress, the keep-awake lock is
\* held if and only if settings.keepAwake is true, also after loadSettings
\* and after a toggleKeepAwake whose save failed
C28_LockMatchesSetting ==
    (NoSettingsOp /\ "settings" \notin loading)
        => (keepAwakeLock <=> settings.keepAwake)


\* C29: after setCurrentLocale(L) the current locale stays L across every
\* app-state change event, until setCurrentLocale is called again
C29_LocaleKeptAcrossAppState ==
    [][(chosen.locale # << >> /\ locale = chosen.locale[1] /\ lastOp' = "appActive")
           => locale' = locale]_vars

====
